---- MODULE Spec2Model ----
(***************************************************************************)
(* Model of scanpy.tools._louvain.louvain: validation, restriction of the  *)
(* adjacency matrix, dispatch to a partitioning backend, and annotation of *)
(* the AnnData container (obs[key_added], uns['louvain']).                 *)
(*                                                                         *)
(* Python strings are sequences of one-character strings, so that join,    *)
(* str(int) and natural sorting are computed, not assumed.  Python None is *)
(* a marker triple for tuple- and string-valued arguments (distinct from   *)
(* '' and from ()) and the string "None" for the resolution.  A dict is a  *)
(* function whose DOMAIN is its key set.                                   *)
(***************************************************************************)
EXTENDS Integers, Sequences, FiniteSets, TLC

\* ------------------------------------------------------------- bounds
\* number of samples (rows of obs, rows/columns of the adjacency matrix)
NSamples == 3
\* the backends return membership ids in 0 .. MaxClusters-1
MaxClusters == 2
\* calls to louvain in one behaviour of Spec
MaxCalls == 1
\* calls to louvain in one behaviour of SpecSeq
MaxSeqCalls == 2
\* calls to louvain in one behaviour of SpecShared
MaxSharedCalls == 3

\* ------------------------------------------------------------- strings
Digits == <<"0", "1", "2", "3", "4", "5", "6", "7", "8", "9">>

IsDigit(c) == \E d \in 1..10 : Digits[d] = c

DigitVal(c) == (CHOOSE d \in 1..10 : Digits[d] = c) - 1

\* the printable ASCII characters in code-point order: ' ' (32) to '_' (95),
\* and 'a' (97) to '~' (126); the grave accent (96) cannot be written in a
\* string of this language and occurs in no label or key
AsciiLow ==
    <<
       " ", "!", "\"", "#", "$", "%", "&", "'", "(", ")", "*", "+", ",", "-", ".", "/",
       "0", "1", "2", "3", "4", "5", "6", "7", "8", "9", ":", ";", "<", "=", ">", "?",
       "@", "A", "B", "C", "D", "E", "F", "G", "H", "I", "J", "K", "L", "M", "N", "O",
       "P", "Q", "R", "S", "T", "U", "V", "W", "X", "Y", "Z", "[", "\\", "]", "^", "_" >>

AsciiHigh ==
    <<
       "a", "b", "c", "d", "e", "f", "g", "h", "i", "j", "k", "l", "m", "n", "o", "p",
       "q", "r", "s", "t", "u", "v", "w", "x", "y", "z", "{", "|", "}", "~" >>

\* ord(c): Python compares str by code point
Ord(c) ==
    IF \E i \in 1..Len(AsciiLow) : AsciiLow[i] = c
    THEN 31 + (CHOOSE i \in 1..Len(AsciiLow) : AsciiLow[i] = c)
    ELSE 96 + (CHOOSE i \in 1..Len(AsciiHigh) : AsciiHigh[i] = c)

\* str(n) / astype('U') of a non-negative integer
RECURSIVE IntToStr(_)
IntToStr(n) == IF n < 10 THEN <<Digits[n + 1]>>
               ELSE IntToStr(n \div 10) \o <<Digits[(n % 10) + 1]>>

\* sep.join(strs)
RECURSIVE Join(_, _)
Join(sep, strs) ==
    IF strs = << >> THEN << >>
    ELSE IF Len(strs) = 1 THEN strs[1]
    ELSE strs[1] \o sep \o Join(sep, Tail(strs))

\* s < t for Python str
RECURSIVE StrLess(_, _)
StrLess(s, t) ==
    IF t = << >> THEN FALSE
    ELSE IF s = << >> THEN TRUE
    ELSE IF Ord(Head(s)) # Ord(Head(t)) THEN Ord(Head(s)) < Ord(Head(t))
    ELSE StrLess(Tail(s), Tail(t))

\* ------------------------------------------------------------- natsort
\* length of the longest prefix of s made of digits (isNum) or of non-digits
RECURSIVE RunLen(_, _)
RunLen(s, isNum) ==
    IF s = << >> \/ (IsDigit(Head(s)) # isNum) THEN 0
    ELSE 1 + RunLen(Tail(s), isNum)

RECURSIVE DigitsToInt(_, _)
DigitsToInt(s, acc) ==
    IF s = << >> THEN acc ELSE DigitsToInt(Tail(s), acc * 10 + DigitVal(Head(s)))

\* natsort's default key: the string split at runs of digits, each run of digits
\* an int, the chunks alternating text, number, text, ... and starting with a
\* text chunk (the empty one when the string starts with a digit)
RECURSIVE NatChunks(_, _)
NatChunks(s, isNum) ==
    IF s = << >> THEN << >>
    ELSE LET n == RunLen(s, isNum)
             rest == SubSeq(s, n + 1, Len(s))
         IN IF isNum
            THEN <<DigitsToInt(SubSeq(s, 1, n), 0)>> \o NatChunks(rest, FALSE)
            ELSE <<SubSeq(s, 1, n)>> \o NatChunks(rest, TRUE)

NatKey(s) ==
    IF s # << >> /\ IsDigit(Head(s)) THEN << << >> >> \o NatChunks(s, TRUE)
    ELSE NatChunks(s, FALSE)

\* tuple comparison of two natsort keys; chunk i is text for odd i, a number for even i
RECURSIVE KeyLess(_, _, _)
KeyLess(k1, k2, i) ==
    IF i > Len(k2) THEN FALSE
    ELSE IF i > Len(k1) THEN TRUE
    ELSE IF k1[i] = k2[i] THEN KeyLess(k1, k2, i + 1)
    ELSE IF i % 2 = 1 THEN StrLess(k1[i], k2[i])
    ELSE k1[i] < k2[i]

NatLess(s, t) == KeyLess(NatKey(s), NatKey(t), 1)

\* insertion of x into a natural-sorted list, after every element not greater (stable)
RECURSIVE NatInsert(_, _)
NatInsert(x, sorted) ==
    IF sorted = << >> THEN <<x>>
    ELSE IF NatLess(x, Head(sorted)) THEN <<x>> \o sorted
    ELSE <<Head(sorted)>> \o NatInsert(x, Tail(sorted))

RECURSIVE NatSort(_)
NatSort(seq) ==
    IF seq = << >> THEN << >>
    ELSE NatInsert(seq[Len(seq)], NatSort(SubSeq(seq, 1, Len(seq) - 1)))

\* the same with plain string comparison: Python's sorted() on str
RECURSIVE LexInsert(_, _)
LexInsert(x, sorted) ==
    IF sorted = << >> THEN <<x>>
    ELSE IF StrLess(x, Head(sorted)) THEN <<x>> \o sorted
    ELSE <<Head(sorted)>> \o LexInsert(x, Tail(sorted))

RECURSIVE LexSort(_)
LexSort(seq) ==
    IF seq = << >> THEN << >>
    ELSE LexInsert(seq[Len(seq)], LexSort(SubSeq(seq, 1, Len(seq) - 1)))

\* natsort.natsorted(seq)
natsorted(seq) == NatSort(seq)

\* ------------------------------------------------------------- values
\* Python None for arguments that are tuples or strings: a triple of a marker
\* that is no character, so that it differs from every string (the empty one
\* included), from the empty tuple, and from every pair and singleton
None == <<"#none", "#none", "#none">>

\* a label that pandas stores as missing (NaN)
NaN == <<"#nan">>

\* a category given as the integer 1 instead of a string
NonStr == <<"#int", "1">>

\* the heads of the values that stand for Python objects that are no str (an
\* int, None, a float nan); none of them is a character
NonStrHeads == {"#int", "#none", "#nan"}

\* isinstance(c, str), decided by the value: the empty string is a str, and so
\* is every sequence of characters
isinstance_str(c) == c = << >> \/ Head(c) \notin NonStrHeads

Samples == 1..NSamples

\* the obs keys of the model: the annotation 'g', the default output key
\* 'louvain', and restrict_key + '_R'
KeyG == <<"g">>

KeyLouvain == <<"l", "o", "u", "v", "a", "i", "n">>

\* ------------------------------------------------------------- numpy / pandas
\* the elements of seq, each once, in order of first appearance (Series.unique)
RECURSIVE Unique(_)
Unique(seq) ==
    IF seq = << >> THEN << >>
    ELSE LET init == Unique(SubSeq(seq, 1, Len(seq) - 1))
             x == seq[Len(seq)]
         IN IF \E i \in 1..Len(init) : init[i] = x THEN init ELSE Append(init, x)

\* the ids as they are, duplicates kept
KeepDuplicates(groups) == groups

RECURSIVE IntInsert(_, _)
IntInsert(x, sorted) ==
    IF sorted = << >> THEN <<x>>
    ELSE IF x < Head(sorted) THEN <<x>> \o sorted
    ELSE <<Head(sorted)>> \o IntInsert(x, Tail(sorted))

RECURSIVE IntSort(_)
IntSort(seq) ==
    IF seq = << >> THEN << >>
    ELSE IntInsert(seq[Len(seq)], IntSort(SubSeq(seq, 1, Len(seq) - 1)))

\* np.unique(groups): the distinct ids, ascending
np_unique(groups) == IntSort(Unique(groups))

\* ndarray.astype('U') of an integer array
astype_U(ints) == [i \in 1..Len(ints) |-> IntToStr(ints[i])]

\* Series.astype('U') of a categorical column: its values as str, NaN as 'nan'
series_astype_U(col) ==
    [i \in 1..Len(col.values) |->
        IF col.values[i] = NaN THEN <<"n", "a", "n">> ELSE col.values[i]]

\* pd.Categorical(values, categories): a value that is no category is stored as NaN
Categorical(values, categories) ==
    [values |-> [i \in 1..Len(values) |->
                    IF \E j \in 1..Len(categories) : categories[j] = values[i]
                    THEN values[i] ELSE NaN],
     cats |-> categories]

\* the complement of the mask
NotIsin(col, wanted) ==
    [i \in 1..Len(col.values) |-> ~ \E j \in 1..Len(wanted) : wanted[j] = col.values[i]]

\* Series.isin(values).values: the boolean mask
isin(col, wanted) ==
    [i \in 1..Len(col.values) |-> \E j \in 1..Len(wanted) : wanted[j] = col.values[i]]

\* seq[mask]: the elements at the positions where the mask is True, in order
RECURSIVE MaskSelect(_, _)
MaskSelect(seq, mask) ==
    IF seq = << >> THEN << >>
    ELSE LET init == MaskSelect(SubSeq(seq, 1, Len(seq) - 1), SubSeq(mask, 1, Len(seq) - 1))
         IN IF mask[Len(seq)] THEN Append(init, seq[Len(seq)]) ELSE init

\* number of True entries among the first i of the mask
RECURSIVE CountTrue(_, _)
CountTrue(mask, i) ==
    IF i = 0 THEN 0 ELSE CountTrue(mask, i - 1) + (IF mask[i] THEN 1 ELSE 0)

\* the new values written to the first positions, whatever the mask
AssignFront(series, mask, new) ==
    [i \in 1..Len(series) |-> IF i <= Len(new) THEN new[i] ELSE series[i]]

\* series.iloc[mask] = new: the k-th new value goes to the k-th True position
iloc_assign(series, mask, new) ==
    [i \in 1..Len(series) |-> IF mask[i] THEN new[CountTrue(mask, i)] ELSE series[i]]

\* adjacency[mask, :] then [:, mask] (lines 109-110)
SliceRows(adj, mask) == MaskSelect(adj, mask)

SliceCols(adj, mask) == [i \in 1..Len(adj) |-> MaskSelect(adj[i], mask)]

\* dict with one entry set: d[k] = v
DictSet(d, k, v) == [x \in DOMAIN d \cup {k} |-> IF x = k THEN v ELSE d[x]]

EmptyDict == [x \in {} |-> 0]

\* ------------------------------------------------------------- inputs
\* uns['neighbors']['connectivities']: a directed ring i -> i+1 of weight 1
Connectivities ==
    [i \in Samples |-> [j \in Samples |-> IF j = (i % NSamples) + 1 THEN 1 ELSE 0]]

\* an adjacency matrix passed explicitly: the complete graph, weight 2
ExplicitAdjacency ==
    [i \in Samples |-> [j \in Samples |-> IF i # j THEN 2 ELSE 0]]

\* the annotation obs['g'] of the container, one of three fixtures:
\* categories A, B, C;  categories A, 2, 10;  categories A, 'A,0', B
GValues(fixture) ==
    [i \in Samples |->
        CASE fixture = 1 -> IF i = 1 THEN <<"A">> ELSE IF i = 2 THEN <<"B">> ELSE <<"C">>
          [] fixture = 2 -> IF i = 1 THEN <<"A">> ELSE IF i = 2 THEN <<"2">> ELSE <<"1", "0">>
          [] OTHER -> IF i = 1 THEN <<"A">> ELSE IF i = 2 THEN <<"A", ",", "0">> ELSE <<"B">>]

Fixtures == {1, 2, 3}

\* AnnData as built by the caller: obs['g'] categorical, uns with or without
\* the result of pp.neighbors
NewAnnData(fixture, hasNeighbors) ==
    [obs |-> DictSet(EmptyDict, KeyG,
                     Categorical(GValues(fixture), natsorted(Unique(GValues(fixture))))),
     uns |-> IF hasNeighbors THEN DictSet(EmptyDict, "neighbors", Connectivities)
             ELSE EmptyDict]

\* ------------------------------------------------------------- graphs
\* the nonzero cells among the first k cells of adj in row-major order
RECURSIVE NonZeroCells(_, _)
NonZeroCells(adj, k) ==
    IF k = 0 THEN << >>
    ELSE LET m == Len(adj[1])
             i == ((k - 1) \div m) + 1
             j == ((k - 1) % m) + 1
             init == NonZeroCells(adj, k - 1)
         IN IF adj[i][j] # 0 THEN Append(init, <<i, j>>) ELSE init

\* utils.get_igraph_from_adjacency: one vertex per row, one edge per nonzero
\* cell, the cell's value as the edge attribute 'weight'
get_igraph_from_adjacency(adjacency, directed) ==
    LET cells == IF adjacency = << >> THEN << >>
                 ELSE NonZeroCells(adjacency, Len(adjacency) * Len(adjacency[1]))
    IN [n |-> Len(adjacency),
        edges |-> cells,
        weight |-> [e \in 1..Len(cells) |-> adjacency[cells[e][1]][cells[e][2]]],
        directed |-> directed]

\* nx.Graph(adjacency): an undirected graph on the rows
nx_Graph(adjacency) ==
    [n |-> Len(adjacency),
     edges |-> {{p[1], p[2]} : p \in {q \in (1..Len(adjacency)) \X (1..Len(adjacency)) :
                                         adjacency[q[1]][q[2]] # 0}}]

\* what a backend may return for a graph: one id per vertex
Memberships(n) == [1..n -> 0..(MaxClusters - 1)]

\* ------------------------------------------------------------- state
VARIABLES
    adata,   \* the caller's AnnData: [obs: key -> column, uns: key -> value]
    pkw,     \* the dict the caller passes as partition_kwargs
    rng,     \* the louvain package's random generator
    memo,    \* louvain.find_partition as a function: what it returned for each input
    first,   \* the membership of the first 'vtraag' call with given arguments and graph
    last,    \* the latest call: arguments, outcome, what went to and came from the backend
    writer,  \* key_added of the run that stored the current uns['louvain']
    ncalls   \* calls made

vars == <<adata, pkw, rng, memo, first, last, writer, ncalls>>

DefaultArgs ==
    [flavor |-> "vtraag", resolution |-> "None", random_state |-> 0,
     restrict_to |-> None, key_added |-> None, adjacency |-> None,
     directed |-> TRUE, use_weights |-> FALSE, partition_type |-> "None",
     partition_kwargs |-> "None", copy |-> FALSE]

NoCall ==
    [args |-> DefaultArgs, outcome |-> "none", groups |-> << >>,
     restrict_indices |-> << >>, key_added |-> None, passed |-> << >>, ret |-> None]

Init ==
    /\ \E fixture \in Fixtures, hasNeighbors \in BOOLEAN :
          adata = NewAnnData(fixture, hasNeighbors)
    /\ pkw = EmptyDict
    /\ rng = [seed |-> 0, state |-> "unseeded"]
    /\ memo = EmptyDict
    /\ first = EmptyDict
    /\ last = NoCall
    /\ writer = None
    /\ ncalls = 0

\* ------------------------------------------------------------- louvain
\* line 92 without the copy: the call always writes to the caller's container
AliasCaller(copy) == "caller"

\* line 92: the container the call writes to

CopyTarget(copy) == IF copy THEN "copy" ELSE "caller"

\* lines 89-107: the error raised before any graph is built, or "ok"; line 99
\* unpacks restrict_to, which fails for a tuple that is no pair
Validate(ad, a) ==
    IF a.flavor # "vtraag" /\ a.partition_type # "None"
    THEN "ValueError: partition_type"
    ELSE IF a.adjacency = None /\ "neighbors" \notin DOMAIN ad.uns
    THEN "ValueError: neighbors"
    ELSE IF a.restrict_to = None THEN "ok"
    ELSE IF Len(a.restrict_to) # 2 THEN "ValueError: unpack"
    ELSE LET restrict_key == a.restrict_to[1]
             restrict_categories == a.restrict_to[2]
         IN IF restrict_categories = << >> THEN "IndexError"
            ELSE IF ~ isinstance_str(restrict_categories[1]) THEN "ValueError: strings"
            ELSE IF restrict_key \notin DOMAIN ad.obs THEN "KeyError"
            ELSE IF \E i \in 1..Len(restrict_categories) :
                       \A j \in 1..Len(ad.obs[restrict_key].cats) :
                           ad.obs[restrict_key].cats[j] # restrict_categories[i]
            THEN "ValueError: category"
            ELSE "ok"

\* line 108
restrict_indices(ad, restrict_to) == isin(ad.obs[restrict_to[1]], restrict_to[2])

\* the dispatch with a bare else in place of line 142: no flavor is refused
ElseIsTaynaud(flavor) ==
    IF flavor \in {"vtraag", "igraph"} THEN "igraph" ELSE "networkx"

\* lines 111, 142, 150: the branch a flavor takes
FlavorBranch(flavor) ==
    IF flavor \in {"vtraag", "igraph"} THEN "igraph"
    ELSE IF flavor = "taynaud" THEN "networkx"
    ELSE "raise"

\* lines 124-131: the dict passed on as **partition_kwargs
StartKwargs(a, caller) == IF a.partition_kwargs = "None" THEN EmptyDict ELSE caller

PartitionKwargs(a, caller, weights) ==
    LET kw0 == StartKwargs(a, caller)
        kw1 == IF a.resolution # "None"
               THEN DictSet(kw0, "resolution_parameter", a.resolution) ELSE kw0
    IN IF a.use_weights THEN DictSet(kw1, "weights", weights) ELSE kw1

\* line 133: louvain.set_rng_seed
set_rng_seed(generator, random_state) == [seed |-> random_state, state |-> "seeded"]

\* the prefix with the categories sorted first
SortedPrefix(restrict_categories) == Join(<<"-">>, LexSort(restrict_categories)) \o <<",">>

\* line 163: the prefix of the labels of a restricted run
Prefix(restrict_categories) == Join(<<"-">>, restrict_categories) \o <<",">>

\* lines 156, 161: the output key
KeyAdded(a) ==
    IF a.key_added # None THEN a.key_added
    ELSE IF a.restrict_to = None THEN KeyLouvain
    ELSE a.restrict_to[1] \o <<"_", "R">>

\* lines 162-165: the labels of all samples of a restricted run
MergedLabels(ad, a, mask, groups) ==
    LET all_groups == series_astype_U(ad.obs[a.restrict_to[1]])
        new_groups == [k \in 1..Len(groups) |-> Prefix(a.restrict_to[2]) \o IntToStr(groups[k])]
    IN iloc_assign(all_groups, mask, new_groups)

\* lines 152-168: the column written to obs[key_added]
LabelColumn(ad, a, mask, groups) ==
    IF a.restrict_to = None
    THEN Categorical(astype_U(groups), natsorted(astype_U(np_unique(groups))))
    ELSE LET all_groups == MergedLabels(ad, a, mask, groups)
         IN Categorical(all_groups, natsorted(Unique(all_groups)))

\* the record kept when there is one already
OnlyIfAbsent(uns, a) ==
    IF "louvain" \in DOMAIN uns THEN uns
    ELSE DictSet(uns, "louvain",
                 [params |-> [resolution |-> a.resolution, random_state |-> a.random_state]])

\* lines 169-170
RecordParams(uns, a) ==
    DictSet(uns, "louvain",
            [params |-> [resolution |-> a.resolution, random_state |-> a.random_state]])

\* lines 154-170: the container after the writes
Annotate(ad, a, mask, groups) ==
    [obs |-> DictSet(ad.obs, KeyAdded(a), LabelColumn(ad, a, mask, groups)),
     uns |-> RecordParams(ad.uns, a)]

\* a raise: nothing is written, the exception reaches the caller
Raise(a, error) ==
    /\ last' = [args |-> a, outcome |-> error, groups |-> << >>,
                restrict_indices |-> << >>, key_added |-> None, passed |-> << >>,
                ret |-> None]
    /\ ncalls' = ncalls + 1
    /\ UNCHANGED <<adata, pkw, rng, memo, first, writer>>

\* lines 152-175 after a backend returned groups
Finish(a, mask, groups, passed) ==
    LET written == Annotate(adata, a, mask, groups)
    IN /\ adata' = IF CopyTarget(a.copy) = "caller" THEN written ELSE adata
       /\ writer' = IF CopyTarget(a.copy) = "caller" THEN KeyAdded(a) ELSE writer
       /\ last' = [args |-> a, outcome |-> "ok", groups |-> groups,
                   restrict_indices |-> mask, key_added |-> KeyAdded(a),
                   passed |-> passed,
                   ret |-> IF a.copy THEN <<written>> ELSE None]
       /\ ncalls' = ncalls + 1

\* one call louvain(adata, **a)
Louvain(a) ==
    LET error == Validate(adata, a)
        whole == IF a.adjacency = None THEN adata.uns["neighbors"] ELSE a.adjacency[1]
        mask == IF a.restrict_to = None THEN << >>
                ELSE restrict_indices(adata, a.restrict_to)
        adjacency == IF a.restrict_to = None THEN whole
                     ELSE SliceCols(SliceRows(whole, mask), mask)
    IN IF error # "ok" THEN Raise(a, error)
       ELSE IF FlavorBranch(a.flavor) = "raise" THEN Raise(a, "ValueError: flavor")
       ELSE IF FlavorBranch(a.flavor) = "networkx"
       THEN \E groups \in Memberships(nx_Graph(adjacency).n) :
               /\ Finish(a, mask, groups, << >>)
               /\ UNCHANGED <<pkw, rng, memo, first>>
       ELSE LET g == get_igraph_from_adjacency(adjacency, a.directed /\ a.flavor # "igraph")
            IN IF a.flavor = "igraph"
               THEN \E groups \in Memberships(g.n) :
                       /\ Finish(a, mask, groups, << >>)
                       /\ UNCHANGED <<pkw, rng, memo, first>>
               ELSE LET kwargs == PartitionKwargs(a, pkw, g.weight)
                        seeded == set_rng_seed(rng, a.random_state)
                        input == [graph |-> g,
                                  partition_type |->
                                      IF a.partition_type = "None"
                                      THEN "RBConfigurationVertexPartition"
                                      ELSE a.partition_type,
                                  kwargs |-> kwargs,
                                  rng |-> seeded]
                        call == [args |-> a, graph |-> g]
                    IN \E groups \in Memberships(g.n) :
                          /\ input \in DOMAIN memo => groups = memo[input]
                          /\ memo' = IF input \in DOMAIN memo THEN memo
                                     ELSE DictSet(memo, input, groups)
                          /\ first' = IF call \in DOMAIN first THEN first
                                      ELSE DictSet(first, call, groups)
                          /\ pkw' = IF a.partition_kwargs = "None" THEN pkw ELSE kwargs
                          /\ rng' = [seed |-> seeded.seed, state |-> "advanced"]
                          /\ Finish(a, mask, groups, <<input>>)

\* ------------------------------------------------------------- arguments
RestrictA == <<KeyG, <<<<"A">>>>>>

RestrictB == <<KeyG, <<<<"B">>>>>>

RestrictAB == <<KeyG, <<<<"A">>, <<"B">>>>>>

RestrictBA == <<KeyG, <<<<"B">>, <<"A">>>>>>

\* clustering of all samples
ArgsUnrestricted ==
    [flavor : {"igraph"}, resolution : {"None"}, random_state : {0},
     restrict_to : {None}, key_added : {None},
     adjacency : {None}, directed : {TRUE}, use_weights : {FALSE},
     partition_type : {"None"}, partition_kwargs : {"None"}, copy : {FALSE}]

\* clustering within categories of obs['g'], in place and on a copy, under the
\* default key, the restriction key and the empty string
ArgsRestricted ==
    [flavor : {"taynaud"}, resolution : {"None"}, random_state : {0},
     restrict_to : {RestrictA, RestrictAB, RestrictBA}, key_added : {None, KeyG, << >>},
     adjacency : {None}, directed : {TRUE}, use_weights : {FALSE},
     partition_type : {"None"}, partition_kwargs : {"None"}, copy : {FALSE, TRUE}]

\* flavors, partition types, adjacency sources and restrictions, valid and not
ArgsValidation ==
    [flavor : {"vtraag", "igraph", "leiden"}, resolution : {"None"}, random_state : {0},
     restrict_to : {RestrictA, << >>, <<KeyG, <<<<"Z">>>>>>, <<KeyG, <<NonStr>>>>,
                    <<KeyG, <<None>>>>, <<KeyG, <<<<"A">>, NonStr>>>>},
     key_added : {None},
     adjacency : {None, <<ExplicitAdjacency>>}, directed : {TRUE}, use_weights : {FALSE},
     partition_type : {"None", "CPMVertexPartition"}, partition_kwargs : {"None"},
     copy : {FALSE, TRUE}]

Args == ArgsUnrestricted \cup ArgsRestricted \cup ArgsValidation

Next == ncalls < MaxCalls /\ \E a \in Args : Louvain(a)

Spec == Init /\ [][Next]_vars

\* runs that follow one another on one container, under different output keys and seeds
ArgsSeq ==
    [flavor : {"igraph"}, resolution : {"None"}, random_state : {0, 1},
     restrict_to : {RestrictA, RestrictB}, key_added : {None, KeyG, KeyLouvain},
     adjacency : {None}, directed : {TRUE}, use_weights : {FALSE},
     partition_type : {"None"}, partition_kwargs : {"None"}, copy : {FALSE}]

NextSeq == ncalls < MaxSeqCalls /\ \E a \in ArgsSeq : Louvain(a)

SpecSeq == Init /\ [][NextSeq]_vars

\* runs of the 'vtraag' flavor that share or do not share one partition_kwargs dict
ArgsShared ==
    [flavor : {"vtraag"}, resolution : {"None", "2.0"}, random_state : {0, 1},
     restrict_to : {RestrictAB}, key_added : {None},
     adjacency : {None}, directed : {TRUE}, use_weights : {FALSE},
     partition_type : {"None"}, partition_kwargs : {"None", "caller"}, copy : {FALSE}]
    \cup
    [flavor : {"vtraag"}, resolution : {"None", "2.0"}, random_state : {0},
     restrict_to : {RestrictAB}, key_added : {None},
     adjacency : {None}, directed : {TRUE}, use_weights : {TRUE},
     partition_type : {"None"}, partition_kwargs : {"None", "caller"}, copy : {FALSE}]

NextShared == ncalls < MaxSharedCalls /\ \E a \in ArgsShared : Louvain(a)

SpecShared == Init /\ [][NextShared]_vars

\* ------------------------------------------------------------- properties
\* the set of elements of a sequence
Range(seq) == {seq[i] : i \in 1..Len(seq)}

\* sample i of container ad lies in the restriction (key, categories)
Inside(ad, restrict_to, i) == ad.obs[restrict_to[1]].values[i] \in Range(restrict_to[2])

\* the rank of sample i among the samples inside the restriction
Rank(ad, restrict_to, i) ==
    Cardinality({j \in 1..i : Inside(ad, restrict_to, j)})

\* the container the latest call wrote to
Result == IF last.args.copy THEN last.ret[1] ELSE adata

Succeeded == last.outcome = "ok"

Restricted == last.args.restrict_to # None

\* C1 as stated: in a successful restricted run every sample outside the
\* restriction keeps, in obs[key_added], the label obs[key_added] held before
\* the call.
C1_OutsideKeepPriorOutputLabel ==
    [][(Succeeded' /\ Restricted' /\ last'.key_added \in DOMAIN adata.obs)
        => \A i \in Samples :
              ~ Inside(adata, last'.args.restrict_to, i)
              => adata'.obs[last'.key_added].values[i]
                     = adata.obs[last'.key_added].values[i]]_vars

\* C1 amended: in a successful restricted run every sample outside the
\* restriction has, in obs[key_added] after the call, the label it had in
\* obs[restrict_key] before the call, for every key_added.
C1_OutsideKeepRestrictKeyLabel ==
    [][(Succeeded' /\ Restricted')
        => \A i \in Samples :
              ~ Inside(adata, last'.args.restrict_to, i)
              => adata'.obs[last'.key_added].values[i]
                     = adata.obs[last'.args.restrict_to[1]].values[i]]_vars

\* a second restricted run under the default key, a sample outside it carrying
\* its obs[restrict_key] label in the output column
C1_Witness ==
    /\ Succeeded /\ Restricted /\ ncalls = 2
    /\ last.args.key_added = None
    /\ \E i \in Samples :
          /\ ~ last.restrict_indices[i]
          /\ adata.obs[last.key_added].values[i] = adata.obs[KeyG].values[i]

\* C2 as stated: a sample inside the restriction is labelled with the SORTED
\* restricting categories joined by '-', then ',' and its cluster id, so the
\* label does not depend on the order the caller lists the categories in.
C2_SortedPrefixLabels ==
    (Succeeded /\ Restricted)
    => \A i \in Samples :
          last.restrict_indices[i]
          => Result.obs[last.key_added].values[i]
                 = Join(<<"-">>, LexSort(last.args.restrict_to[2])) \o <<",">>
                   \o IntToStr(last.groups[CountTrue(last.restrict_indices, i)])

\* C2 amended: a sample inside the restriction is labelled with the restricting
\* categories in the order the caller lists them, joined by '-', then ',' and
\* its cluster id.
C2_CallerOrderPrefixLabels ==
    (Succeeded /\ Restricted)
    => \A i \in Samples :
          last.restrict_indices[i]
          => Result.obs[last.key_added].values[i]
                 = Join(<<"-">>, last.args.restrict_to[2]) \o <<",">>
                   \o IntToStr(last.groups[CountTrue(last.restrict_indices, i)])

\* a run restricted to ['B', 'A'] has labelled a sample 'B-A,1'
C2_Witness ==
    /\ Succeeded /\ last.args.restrict_to = RestrictBA
    /\ \E i \in Samples :
          Result.obs[last.key_added].values[i] = <<"B", "-", "A", ",", "1">>

\* C3 as stated: after every successful run the number of categories of
\* obs[key_added] equals the number of distinct membership ids.
C3_CategoriesCountIds ==
    Succeeded
    => Len(Result.obs[last.key_added].cats) = Cardinality(Range(last.groups))

\* C3 amended: without restriction the number of categories equals the number
\* of distinct membership ids; with restriction it equals that number plus the
\* number of distinct obs[restrict_key] labels of the samples outside the
\* restriction that are not among the new prefixed labels.
C3_CategoriesCountIdsPlusOutside ==
    [][Succeeded'
        => LET cats == (IF last'.args.copy THEN last'.ret[1] ELSE adata')
                            .obs[last'.key_added].cats
               ids == Range(last'.groups)
           IN IF ~ Restricted' THEN Len(cats) = Cardinality(ids)
              ELSE LET rt == last'.args.restrict_to
                       new == {Join(<<"-">>, rt[2]) \o <<",">> \o IntToStr(id) : id \in ids}
                       outside == {adata.obs[rt[1]].values[i] :
                                       i \in {j \in Samples : ~ Inside(adata, rt, j)}}
                   IN Len(cats) = Cardinality(ids) + Cardinality(outside \ new)]_vars

\* a restricted run with two clusters and three categories
C3_Witness ==
    /\ Succeeded /\ Restricted
    /\ Cardinality(Range(last.groups)) = 2
    /\ Len(Result.obs[last.key_added].cats) = 3

\* C4: after every successful run the categories of obs[key_added] are in
\* natural-sort order and pairwise distinct; without restriction they are
\* exactly the strings of the distinct cluster ids.
C4_CategoriesNaturalSorted ==
    Succeeded
    => LET cats == Result.obs[last.key_added].cats
       IN /\ \A j \in 1..(Len(cats) - 1) : ~ NatLess(cats[j + 1], cats[j])
          /\ \A j, k \in 1..Len(cats) : j # k => cats[j] # cats[k]
          /\ ~ Restricted
             => /\ Range(cats) = {IntToStr(id) : id \in Range(last.groups)}
                /\ \A j \in 1..(Len(cats) - 1) :
                      DigitsToInt(cats[j], 0) < DigitsToInt(cats[j + 1], 0)

\* a run whose categories hold '2' before '10'
C4_Witness ==
    /\ Succeeded
    /\ LET cats == Result.obs[last.key_added].cats
       IN \E j, k \in 1..Len(cats) :
             j < k /\ cats[j] = <<"2">> /\ cats[k] = <<"1", "0">>

\* the four validation failures, read off the arguments and the container
NoAdjacencySource(ad, a) == a.adjacency = None /\ "neighbors" \notin DOMAIN ad.uns

BadRestriction(ad, a) ==
    /\ a.restrict_to # None
    /\ Len(a.restrict_to) = 2
    /\ \E c \in Range(a.restrict_to[2]) :
          \/ Head(c) = "#int"
          \/ c \notin Range(ad.obs[a.restrict_to[1]].cats)

PartitionTypeWithOtherFlavor(a) == a.partition_type # "None" /\ a.flavor # "vtraag"

UnknownFlavor(a) == a.flavor \notin {"vtraag", "igraph", "taynaud"}

\* C5: a call with one of the four validation failures ends with a raised
\* error, returns nothing and leaves the passed-in container as it was.
C5_ValidationFailureChangesNothing ==
    [][(\/ NoAdjacencySource(adata, last'.args)
        \/ BadRestriction(adata, last'.args)
        \/ PartitionTypeWithOtherFlavor(last'.args)
        \/ UnknownFlavor(last'.args))
        => /\ last'.outcome \in {"ValueError: neighbors", "ValueError: strings",
                                 "ValueError: category", "ValueError: partition_type",
                                 "ValueError: flavor", "ValueError: unpack"}
           /\ last'.ret = None
           /\ adata' = adata]_vars

\* an in-place call with an unknown flavor and a valid restriction has raised
C5_Witness ==
    /\ last.outcome = "ValueError: flavor"
    /\ last.args.restrict_to = RestrictA
    /\ ~ last.args.copy
    /\ "louvain" \notin DOMAIN adata.uns

\* a container carries the labels and the parameters record of call c
Carries(container, c) ==
    /\ c.key_added \in DOMAIN container.obs
    /\ Len(container.obs[c.key_added].values) = NSamples
    /\ "louvain" \in DOMAIN container.uns
    /\ container.uns["louvain"].params
           = [resolution |-> c.args.resolution, random_state |-> c.args.random_state]

\* C7: with copy=True the call returns a container with the new column and
\* record and leaves the passed-in container unchanged; with copy=False it
\* returns nothing and the passed-in container has the new column and record.
C7_CopyOrInPlace ==
    [][Succeeded'
        => IF last'.args.copy
           THEN /\ adata' = adata
                /\ last'.ret # None
                /\ Carries(last'.ret[1], last')
           ELSE /\ last'.ret = None
                /\ Carries(adata', last')]_vars

\* a successful call with copy=True on a container without uns['louvain']
C7_Witness ==
    /\ Succeeded /\ last.args.copy
    /\ last.ret # None
    /\ "louvain" \notin DOMAIN adata.uns

\* C9: after a successful run every sample has one non-missing label that is a
\* category of the column; under restriction the membership vector has one
\* entry per restricted sample and the k-th entry labels the k-th restricted
\* sample in container order.
C9_NoSampleDropped ==
    [][Succeeded'
        => LET col == (IF last'.args.copy THEN last'.ret[1] ELSE adata')
                           .obs[last'.key_added]
               rt == last'.args.restrict_to
           IN /\ Len(col.values) = NSamples
              /\ \A i \in Samples : col.values[i] # NaN /\ col.values[i] \in Range(col.cats)
              /\ IF ~ Restricted'
                 THEN /\ Len(last'.groups) = NSamples
                      /\ \A i \in Samples : col.values[i] = IntToStr(last'.groups[i])
                 ELSE /\ Len(last'.groups)
                             = Cardinality({i \in Samples : Inside(adata, rt, i)})
                      /\ \A i \in Samples :
                            Inside(adata, rt, i)
                            => LET id == IntToStr(last'.groups[Rank(adata, rt, i)])
                                   label == col.values[i]
                               IN /\ Len(label) > Len(id)
                                  /\ SubSeq(label, Len(label) - Len(id) + 1, Len(label)) = id
                                  /\ label[Len(label) - Len(id)] = ","]_vars

\* a restricted run with two samples inside, in different clusters, one outside
C9_Witness ==
    /\ Succeeded /\ Restricted
    /\ Len(last.groups) = 2 /\ last.groups[1] # last.groups[2]
    /\ \E i \in Samples : ~ last.restrict_indices[i]

\* C6 as stated: a successful run under another output key than the run that
\* stored uns['louvain'] changes neither that run's obs column nor the
\* parameters record it stored.
C6_OtherKeyKeepsColumnAndParams ==
    [][(Succeeded' /\ writer # None /\ last'.key_added # writer)
        => /\ adata'.obs[writer] = adata.obs[writer]
           /\ adata'.uns["louvain"] = adata.uns["louvain"]]_vars

\* C6 amended: a successful run changes no obs column but the one of its own
\* output key, and it replaces the parameters record uns['louvain']['params'],
\* one record for the whole container, by its own resolution and random_state,
\* whatever output key the record came from.
C6_OtherKeyKeepsColumnParamsReplaced ==
    [][Succeeded'
        => /\ \A k \in DOMAIN adata.obs :
                 k # last'.key_added
                 => k \in DOMAIN adata'.obs /\ adata'.obs[k] = adata.obs[k]
           /\ adata'.uns["louvain"].params
                  = [resolution |-> last'.args.resolution,
                     random_state |-> last'.args.random_state]]_vars

\* two runs under different output keys: both columns are there, the record is
\* the second run's
C6_Witness ==
    /\ Succeeded /\ ncalls = 2
    /\ last.key_added = KeyLouvain
    /\ (KeyG \o <<"_", "R">>) \in DOMAIN adata.obs
    /\ last.args.random_state = 1
    /\ adata.uns["louvain"].params.random_state = 1

\* C8: a 'vtraag' run returns the membership of the first 'vtraag' run that had
\* the same arguments and the same graph, whatever ran in between.
C8_SameArgumentsSameMembership ==
    (Succeeded /\ last.args.flavor = "vtraag")
    => LET call == [args |-> last.args, graph |-> last.passed[1].graph]
       IN call \in DOMAIN first => last.groups = first[call]

\* C10: a call leaves the caller's partition_kwargs as it was, and a 'vtraag'
\* call passes a resolution_parameter exactly when its own resolution is not
\* None and weights exactly when its own use_weights is set.
C10_CallerKwargsUnchanged ==
    [][/\ pkw' = pkw
       /\ (Succeeded' /\ last'.args.flavor = "vtraag")
          => LET kwargs == last'.passed[1].kwargs
             IN /\ "resolution_parameter" \in DOMAIN kwargs
                       <=> last'.args.resolution # "None"
                /\ "weights" \in DOMAIN kwargs <=> last'.args.use_weights]_vars

====
